---- MODULE Spec2Model ----
(***************************************************************************)
(* A model of the tiling core of ppcg (yaozhujia/ppcg): split tiling       *)
(* (src/split_tiling.c), overlapped tiling (src/unnamed/part_001, the      *)
(* multi_dim / after_mapping revision of src/overlapped_tiling.c) and the  *)
(* CPU driver that selects between them (src/cpu.c).                       *)
(*                                                                         *)
(* Statement instances are integer points <<t, i>> (or <<t, i, j>> for a   *)
(* three-member band).  A band's partial schedule is a list of affine rows *)
(* [ct, ci, k]: member 1 is the time member, member 2 the first space      *)
(* member, member 3 (if any) is the plain third coordinate.                *)
(***************************************************************************)
EXTENDS Integers, Sequences, FiniteSets, TLC

VARIABLES pc, node, sizes, scop, ctx, loc

vars == <<pc, node, sizes, scop, ctx, loc>>

(***************************************************************************)
(* Bounds of the model.                                                    *)
(***************************************************************************)
MaxTile == 4

INT32_MAX == 2147483647

\* Null pointers: a null schedule node, a null isl_multi_val, a null scop.
NullNode ==
    [tree |-> <<>>, pos |-> 0,
     domain |-> [tmin |-> 0, nt |-> 0, imin |-> 0, ni |-> 0, nj |-> 0]]
NullSizes == <<>>
NullScop == [null |-> TRUE]

(***************************************************************************)
(* Integer helpers.                                                        *)
(***************************************************************************)
Abs(x) == IF x < 0 THEN -x ELSE x

\* floor(a / b) for b > 0, as isl computes "floor((a)/b)".
FloorDiv(a, b) == a \div b

\* C's integer division (truncation toward zero); b # 0.
CDiv(a, b) ==
    IF (a >= 0) = (b > 0) \/ a = 0
    THEN Abs(a) \div Abs(b)
    ELSE -(Abs(a) \div Abs(b))

MinOf(S) == CHOOSE x \in S : \A y \in S : x <= y
MaxOf(S) == CHOOSE x \in S : \A y \in S : y <= x

\* The elements of S that are lexicographically minimal (maximal) on the
\* coordinates from n on.
RECURSIVE LexMinFrom(_, _)
LexMinFrom(S, n) ==
    IF \A x \in S : n > Len(x) THEN S
    ELSE LET m == MinOf({x[n] : x \in S})
         IN  LexMinFrom({x \in S : x[n] = m}, n + 1)

RECURSIVE LexMaxFrom(_, _)
LexMaxFrom(S, n) ==
    IF \A x \in S : n > Len(x) THEN S
    ELSE LET m == MaxOf({x[n] : x \in S})
         IN  LexMaxFrom({x \in S : x[n] = m}, n + 1)

LexMin(S) == CHOOSE x \in LexMinFrom(S, 1) : TRUE
LexMax(S) == CHOOSE x \in LexMaxFrom(S, 1) : TRUE

(***************************************************************************)
(* The scop: iteration domain, flow dependences, options.                  *)
(***************************************************************************)
\* The iteration domain of the statement: a box, as a set of points.
DomainPoints(dom) ==
    IF dom.nj = 0
    THEN {<<t, i>> : t \in dom.tmin..(dom.tmin + dom.nt - 1),
                     i \in dom.imin..(dom.imin + dom.ni - 1)}
    ELSE {<<t, i, j>> : t \in dom.tmin..(dom.tmin + dom.nt - 1),
                        i \in dom.imin..(dom.imin + dom.ni - 1),
                        j \in 0..(dom.nj - 1)}

\* The affine value of schedule member m of the band at point pt.
SchedVal(sched, m, pt) ==
    IF m <= 2
    THEN sched[m].ct * pt[1] + sched[m].ci * pt[2] + sched[m].k
    ELSE pt[m]

(***************************************************************************)
(* Schedule trees.  A tree is the chain of nodes from the band downward    *)
(* (a sequence node's filter children all carry the rest of the chain);    *)
(* a schedule node is a tree with a position in it.                        *)
(***************************************************************************)
OrigBand(n, sched) ==
    [type |-> "band", role |-> "orig", members |-> [m \in 1..n |-> m],
     sched |-> sched, sz |-> <<>>, scale |-> FALSE, shift |-> FALSE,
     loop_type |-> [m \in 1..n |-> "default"]]

Leaf == [type |-> "leaf"]

\* A band node of a schedule tree whose domain node holds "dom".
BandNode(dom, sched) ==
    [tree |-> <<OrigBand(IF dom.nj = 0 THEN 2 ELSE 3, sched), Leaf>>, pos |-> 1,
     domain |-> dom]

\* A node that is not a band (the filter above a band, say).
FilterNode(dom) ==
    [tree |-> <<[type |-> "filter"], Leaf>>, pos |-> 1, domain |-> dom]

NodeType(n) == IF n = NullNode THEN "error" ELSE n.tree[n.pos].type

IsBand(n) == n # NullNode /\ NodeType(n) = "band"

BandNMember(n) == Len(n.tree[n.pos].members)

\* The coordinate a tile band gives value v under tile size sz.
TileCoord(v, sz, scale) ==
    IF scale THEN sz * FloorDiv(v, sz) ELSE FloorDiv(v, sz)

\* The coordinate a point band gives value v under tile size sz.
PointCoord(v, sz, shift) ==
    IF shift THEN v - sz * FloorDiv(v, sz) ELSE v

\* The value of member index q (1..Len(members)) of band layer b at pt.
BandVal(b, q, pt) ==
    LET m == b.members[q]
        v == SchedVal(b.sched, m, pt)
    IN  CASE b.role = "orig"  -> v
          [] b.role = "tile"  -> TileCoord(v, b.sz[m], b.scale)
          [] b.role = "point" -> PointCoord(v, b.sz[m], b.shift)

\* The partial schedule of band layer b at pt, as a tuple.
BandPartialSchedule(b, pt) == [q \in 1..Len(b.members) |-> BandVal(b, q, pt)]

\* isl_schedule_node_band_tile: the band becomes a tile band with the point
\* band as its child; the two isl options are read at this moment.
\* A null node or null sizes give a null node.
BandTile(n, sz, c) ==
    IF n = NullNode \/ sz = NullSizes \/ ~IsBand(n) THEN NullNode
    ELSE IF Len(sz) # BandNMember(n) THEN NullNode  \* spaces do not match
    ELSE LET b == n.tree[n.pos]
             tb == [b EXCEPT !.role = "tile", !.sz = sz,
                             !.scale = c.tile_scale_tile_loops,
                             !.shift = c.tile_shift_point_loops]
             pb == [tb EXCEPT !.role = "point"]
         IN  [n EXCEPT !.tree = SubSeq(n.tree, 1, n.pos - 1) \o <<tb, pb>>
                               \o SubSeq(n.tree, n.pos + 1, Len(n.tree))]

\* A variant of the split that leaves every member in the node and copies
\* the members after "at" to the child.
BandSplitKeep(n, at) ==
    IF n = NullNode \/ ~IsBand(n) THEN NullNode
    ELSE LET b == n.tree[n.pos]
             k == Len(b.members)
             lo == [b EXCEPT !.members = SubSeq(b.members, at + 1, k)]
         IN  [n EXCEPT !.tree = SubSeq(n.tree, 1, n.pos - 1) \o <<b, lo>>
                               \o SubSeq(n.tree, n.pos + 1, Len(n.tree))]

\* isl_schedule_node_band_split: the first "at" members stay in the node,
\* the others move to a new band child.
BandSplit(n, at) ==
    IF n = NullNode \/ ~IsBand(n) THEN NullNode
    ELSE LET b == n.tree[n.pos]
             k == Len(b.members)
             up == [b EXCEPT !.members = SubSeq(b.members, 1, at)]
             lo == [b EXCEPT !.members = SubSeq(b.members, at + 1, k)]
         IN  [n EXCEPT !.tree = SubSeq(n.tree, 1, n.pos - 1) \o <<up, lo>>
                               \o SubSeq(n.tree, n.pos + 1, Len(n.tree))]

NodeChild(n) ==
    IF n = NullNode \/ n.pos >= Len(n.tree) THEN NullNode ELSE [n EXCEPT !.pos = n.pos + 1]

NodeParent(n) ==
    IF n = NullNode \/ n.pos <= 1 THEN NullNode ELSE [n EXCEPT !.pos = n.pos - 1]

\* A variant of the insertion that loses the first filter.
InsertSequenceTail(n, filters) ==
    IF n = NullNode THEN NullNode
    ELSE [n EXCEPT !.tree = SubSeq(n.tree, 1, n.pos - 1)
                            \o <<[type |-> "sequence", filters |-> Tail(filters)]>>
                            \o SubSeq(n.tree, n.pos, Len(n.tree))]

\* isl_schedule_node_insert_sequence: a sequence node with one filter child
\* per element of "filters" takes the node's place; the node (and its
\* subtree) is copied below every filter.
InsertSequence(n, filters) ==
    IF n = NullNode THEN NullNode
    ELSE [n EXCEPT !.tree = SubSeq(n.tree, 1, n.pos - 1)
                            \o <<[type |-> "sequence", filters |-> filters]>>
                            \o SubSeq(n.tree, n.pos, Len(n.tree))]

(***************************************************************************)
(* Dependence Probe (split_tiling.c).                                      *)
(*                                                                         *)
(* scop.dep_flow is a set D of space distances: the flow dependences are   *)
(* S(t, i) -> S(t + 1, i + d) for d in D.  Their gist against the domain   *)
(* on both sides is the plain translation, so it also applies to a source  *)
(* point that lies outside the domain.                                     *)
(***************************************************************************)
\* The tile band of a tiled node, and the point band below it.
TileBandOf(n) == n.tree[n.pos]

\* A null isl_point.
NullPoint == <<>>

\* Lexicographically minimal tile of the domain.
split_tile_obtain_source_tile(n) ==
    IF n = NullNode \/ NodeType(n) # "band" THEN NullPoint
    ELSE
    LexMin({BandPartialSchedule(TileBandOf(n), p) : p \in DomainPoints(n.domain)})

\* The points any tile can cover around the domain: the set the reversed
\* (domain-free) tile schedule is evaluated on.
CoveredWindow(n) ==
    LET b == TileBandOf(n)
        dom == n.domain
        c == Abs(b.sched[2].ct)
        lo == dom.imin - (b.sz[2] - 1) - c * (b.sz[1] - 1)
        hi == dom.imin + dom.ni - 1 + c * (b.sz[1] - 1)
        ts == (dom.tmin - (b.sz[1] - 1))..(dom.tmin + dom.nt - 1)
    IN  IF dom.nj = 0
        THEN {<<t, i>> : t \in ts, i \in lo..hi}
        ELSE {<<t, i, j>> : t \in ts, i \in lo..hi,
                            j \in (0 - (b.sz[3] - 1))..(dom.nj - 1)}

\* Lexicographically minimal point among those the minimal tile covers.
split_tile_obtain_source_point(n) ==
    IF n = NullNode \/ NodeType(n) # "band" THEN NullPoint
    ELSE
    LET tile == split_tile_obtain_source_tile(n)
    IN  LexMin({p \in CoveredWindow(n) :
                    BandPartialSchedule(TileBandOf(n), p) = tile})

\* (max - min + 1) of the time coordinate, INT32_MAX when max = min.
obtain_time_dim_size(dom) ==
    LET ub == LexMax(DomainPoints(dom))[1]
        lb == LexMin(DomainPoints(dom))[1]
        bound == ub - lb
    IN  IF bound = 0 THEN INT32_MAX ELSE bound + 1

\* The images of "point" under the flow dependences.
DepImage(D, point) == {[point EXCEPT ![1] = @ + 1, ![2] = @ + d] : d \in D}

\* factor: space advance over time advance from the source point to the
\* lexicographically maximal image.
split_tile_compute_dependence(point, D) ==
    LET pnt1 == LexMax(DepImage(D, point))
    IN  CDiv(pnt1[2] - point[2], pnt1[1] - point[1])

\* A variant that advances the space coordinate by factor once.
split_tile_obtain_sink_point_unit(point, delta, factor) ==
    [point EXCEPT ![1] = @ + delta, ![2] = @ + factor]

split_tile_obtain_sink_point(point, delta, factor) ==
    [point EXCEPT ![1] = @ + delta, ![2] = @ + factor * delta]

split_tile_obtain_sink_tile(n, point) ==
    IF n = NullNode \/ point = NullPoint \/ NodeType(n) # "band" THEN NullPoint
    ELSE BandPartialSchedule(TileBandOf(n), point)

\* A variant of split_tile_n_dependent_tiles that divides by the tile size
\* when the tile loops are not scaled.
split_tile_n_dependent_tiles_unscaled(source, sink, sz, c) ==
    LET n == sink[2] - source[2]
    IN  (IF c.tile_scale_tile_loops THEN n ELSE CDiv(n, sz[2])) + 1

\* A variant of split_tile_n_dependent_tiles that does not count the source
\* tile itself.
split_tile_n_crossed_tiles(source, sink, sz, c) ==
    LET n == sink[2] - source[2]
    IN  IF c.tile_scale_tile_loops THEN CDiv(n, sz[2]) ELSE n

split_tile_n_dependent_tiles(source, sink, sz, c) ==
    LET n == sink[2] - source[2]
    IN  (IF c.tile_scale_tile_loops THEN CDiv(n, sz[2]) ELSE n) + 1

\* The space advance the slope is divided by.
\* split_tile_compute_slope: time advance over space advance between the
\* two points.  A zero space advance is a division by zero: the program
\* traps or the division yields 0, depending on the target.
split_tile_compute_slope(source, sink) ==
    LET delta == sink[1] - source[1]
        den == sink[2] - source[2]
    IN  IF den = 0
        THEN {[trap |-> TRUE, val |-> 0], [trap |-> FALSE, val |-> 0]}
        ELSE {[trap |-> FALSE, val |-> CDiv(delta, den)]}

(***************************************************************************)
(* Phase Partitioner (split_tiling.c).  The C code assembles every         *)
(* expression as text and has isl parse it; the model keeps, for each      *)
(* text, the terms it is assembled from and evaluates it as isl does.      *)
(***************************************************************************)
\* The text of one member of the point-loop schedule "mupa" is fixed by the
\* member's schedule row and its tile size.
ExprText(pb, q) == <<pb.sched[pb.members[q]], pb.sz[pb.members[q]]>>

\* The value of member q of "mupa" at pt: the point band's schedule, minus
\* the (scaled) tile schedule when the point loops are not shifted.
MupaVal(tb, pb, c, q, pt) ==
    LET m == pb.members[q]
        tile_mupa == IF c.tile_scale_tile_loops
                     THEN BandVal(tb, q, pt)
                     ELSE tb.sz[m] * BandVal(tb, q, pt)
    IN  IF c.tile_shift_point_loops
        THEN BandVal(pb, q, pt)
        ELSE BandVal(pb, q, pt) - tile_mupa

\* A variant of construct_expr that never exempts the statement.
construct_expr_always(tb, pb, c) ==
    [no_constraints |-> FALSE,
     constant |-> pb.sched[pb.members[2]].k,
     tb |-> tb, pb |-> pb, c |-> c]

\* construct_expr: expr = (space member) - (time member) of mupa, unless
\* the two texts are equal; constant = constant term of the last member.
construct_expr(tb, pb, c) ==
    [no_constraints |-> ExprText(pb, 2) = ExprText(pb, 1),
     constant |-> pb.sched[pb.members[2]].k,
     tb |-> tb, pb |-> pb, c |-> c]

ExprVal(data, pt) ==
    IF data.no_constraints
    THEN MupaVal(data.tb, data.pb, data.c, 1, pt)
    ELSE MupaVal(data.tb, data.pb, data.c, 2, pt)
         - MupaVal(data.tb, data.pb, data.c, 1, pt)

\* construct_bound: (s - slope*t + constant) - size*floor((s - slope*t
\* + space_shift)/size), s and t being the statement's own coordinates.
\* The text inside floor() is the first text with every occurrence of the
\* constant's digits dropped: when the slope is printed (slope # 1) and
\* carries the same digits, the text no longer parses.
construct_bound(sz, slope, space_shift, data) ==
    [size |-> sz[2], slope |-> slope, constant |-> data.constant,
     space_shift |-> space_shift,
     malformed |-> /\ data.constant # 0
                   /\ slope # 1
                   /\ Abs(data.constant) = Abs(slope)]

BoundVal(bound, pt) ==
    LET f == pt[2] - bound.slope * pt[1]
    IN  (f + bound.constant)
        - bound.size * FloorDiv(f + bound.space_shift, bound.size)

\* A variant of construct_phase whose upper bound is taken at "order", not
\* at "order - 1": it leaves a gap between consecutive phases.
construct_phase_gap(sz, data, order) ==
    [order |-> order,
     has_lb |-> order < data.n_phase - 1,
     lbk |-> order,
     has_ub |-> order > 0,
     ubk |-> order,
     t_size |-> sz[1], s_size |-> sz[2],
     data |-> data]

\* A variant of construct_phase that leaves the lower bound off the first
\* phase and the upper bound off the last one.
construct_phase_flipped(sz, data, order) ==
    [order |-> order,
     has_lb |-> order > 0,
     lbk |-> order,
     has_ub |-> order < data.n_phase - 1,
     ubk |-> order - 1,
     t_size |-> sz[1], s_size |-> sz[2],
     data |-> data]

\* construct_phase: the constraint lb <= expr < ub of phase "order".
\* lbk / ubk are the multiples of s_size subtracted from the bound; the
\* "tail" term is added exactly when the multiple is not 0.
construct_phase(sz, data, order) ==
    [order |-> order,
     has_lb |-> order < data.n_phase - 1,
     lbk |-> order,
     has_ub |-> order > 0,
     ubk |-> order - 1,
     t_size |-> sz[1], s_size |-> sz[2],
     data |-> data]

\* tail = t - s_size*floor(t / t_size)
TailVal(ph, pt) == pt[1] - ph.s_size * FloorDiv(pt[1], ph.t_size)

PhaseEdge(ph, k, pt) ==
    IF k > 0
    THEN BoundVal(ph.data.bound, pt) - k * ph.s_size + TailVal(ph, pt)
    ELSE BoundVal(ph.data.bound, pt)

\* Whether the statement instance pt satisfies the filter of phase ph.
InPhase(ph, pt) ==
    \/ ph.data.no_constraints
    \/ /\ ph.has_lb => PhaseEdge(ph, ph.lbk, pt) <= ExprVal(ph.data, pt)
       /\ ph.has_ub => ExprVal(ph.data, pt) < PhaseEdge(ph, ph.ubk, pt)

\* A null isl_union_set_list.
NullList == [null |-> TRUE, list |-> <<>>]

\* split_tile_construct_phases: "n" is the tile band (split to two members
\* when "splitted"); the list of n_list phases, null when a phase text does
\* not parse.
split_tile_construct_phases(n, c, sz, slope, space_shift, n_list, splitted) ==
    LET tb == TileBandOf(n)
        below == NodeChild(n)
        pn == IF splitted THEN BandSplit(NodeChild(below), 2) ELSE below
        pb == TileBandOf(pn)
        expr == construct_expr(tb, pb, c)
        data == [no_constraints |-> expr.no_constraints,
                 constant |-> expr.constant,
                 tb |-> tb, pb |-> pb, c |-> c,
                 n_phase |-> n_list,
                 bound |-> construct_bound(sz, slope, space_shift, expr)]
    IN  IF data.bound.malformed /\ ~data.no_constraints
        THEN NullList
        ELSE [null |-> FALSE,
              list |-> [i \in 1..n_list |-> construct_phase(sz, data, i - 1)]]

(***************************************************************************)
(* split_tile (split_tiling.c).                                            *)
(***************************************************************************)
\* The locals of a call that returned before computing anything.
NoLocals ==
    [bound |-> 0, delta |-> 0, source_tile |-> <<>>, source_point |-> <<>>,
     factor |-> 0, shift |-> 0, sink_point |-> <<>>, sink_tile |-> <<>>,
     n_list |-> 0, slope |-> 0, splitted |-> FALSE, phases |-> NullList]

\* The outcome of a call: the returned node, whether the program trapped,
\* the sizes and isl options it leaves behind, and its locals.
Outcome(ret, trap, sz, c, locals) ==
    [ret |-> ret, trap |-> trap, sizes |-> sz, ctx |-> c, locals |-> locals]

\* The outcomes of split_tile(node, scop, sizes) under the isl options c.
split_tile(n, sc, sz, c) ==
    IF n = NullNode \/ sc = NullScop \/ sz = NullSizes \/ NodeType(n) # "band"
    THEN {Outcome(NullNode, FALSE, sz, c, NoLocals)}
    ELSE
    LET nmem == BandNMember(n)
        bound == obtain_time_dim_size(n.domain)
        msync == sc.options.min_sync /\ bound # INT32_MAX
        delta == IF msync THEN bound - 1 ELSE sz[1] - 1
        sz1 == IF msync THEN [sz EXCEPT ![1] = bound] ELSE sz
        tiled == BandTile(n, sz1, c)
        source_tile == split_tile_obtain_source_tile(tiled)
        source_point == split_tile_obtain_source_point(tiled)
        factor == split_tile_compute_dependence(source_point, sc.dep_flow)
        \* one statement: split_tile_compute_space_dependence is not called
        shift == 0
        sink_point == split_tile_obtain_sink_point(source_point, delta, factor)
        sink_tile == split_tile_obtain_sink_tile(tiled, sink_point)
        n_list == split_tile_n_dependent_tiles(source_tile, sink_tile, sz1, c) + 1
        splitted == nmem > 2
        upper == IF splitted THEN BandSplit(tiled, 2) ELSE tiled
        Finish(sl) ==
            LET phases == split_tile_construct_phases(upper, c, sz1, sl.val,
                                                      shift, n_list, splitted)
                below == NodeChild(BandSplit(upper, 1))
                seq == IF phases.null THEN NullNode
                       ELSE InsertSequence(below, phases.list)
                locals == [bound |-> bound, delta |-> delta,
                           source_tile |-> source_tile,
                           source_point |-> source_point,
                           factor |-> factor, shift |-> shift,
                           sink_point |-> sink_point, sink_tile |-> sink_tile,
                           n_list |-> n_list, slope |-> sl.val,
                           splitted |-> splitted, phases |-> phases]
            IN  IF sl.trap
                THEN Outcome(tiled, TRUE, sz1, c, [locals EXCEPT !.phases = NullList])
                ELSE Outcome(NodeParent(seq), FALSE, sz1, c, locals)
        \* No probe result is tested.  With null points every coordinate
        \* reads as 0 and split_tile_compute_dependence divides 0 by 0: the
        \* program traps, or the division yields a value (0 here) and the
        \* later calls run on null points until the node comes back null.
        onnull == [NoLocals EXCEPT !.bound = bound, !.delta = delta,
                                   !.source_tile = source_tile,
                                   !.source_point = source_point]
    IN  IF source_tile = NullPoint \/ source_point = NullPoint
        THEN {Outcome(NullNode, TRUE, sz1, c, onnull),
              Outcome(NullNode, FALSE, sz1, c,
                      [onnull EXCEPT !.factor = 0, !.sink_point = NullPoint,
                                     !.sink_tile = split_tile_obtain_sink_tile(tiled, NullPoint),
                                     !.n_list = 2, !.splitted = nmem > 2])}
        ELSE {Finish(sl) : sl \in split_tile_compute_slope(source_point, sink_point)}

(***************************************************************************)
(* Inputs.                                                                 *)
(***************************************************************************)
\* Iteration domains {S(t, i [, j])}: boxes given by lower bound and extent.
Box(tmin, nt, imin, ni, nj) ==
    [tmin |-> tmin, nt |-> nt, imin |-> imin, ni |-> ni, nj |-> nj]

StencilDomain == Box(0, 10, 0, 20, 0)

Domains == {StencilDomain, Box(0, 5, 0, 7, 0), Box(1, 4, 2, 5, 2)}

\* Flow dependences S(t, i) -> S(t + 1, i + d), as the set of d.
StencilDeps == {-1, 0, 1}

DepSets == {StencilDeps, {0, 1}, {-1}}

\* The skews c and constants k of the space row of the band's schedule.
Skews == {0, 1, 2}
Consts == {0, 1}

\* The band's schedule: time row t, space row c*t + i + k.
Sched(c, k) == <<[ct |-> 1, ci |-> 0, k |-> 0], [ct |-> c, ci |-> 1, k |-> k]>>

\* A schedule the scheduler can produce for D: no dependence has a negative
\* distance along the space row.
Legal(c, D) == \A d \in D : c + d >= 0

Options(ms) == [min_sync |-> ms]

Scop(D, ms) == [dep_flow |-> D, options |-> Options(ms)]

TileSizes(dom, T, S) == IF dom.nj = 0 THEN <<T, S>> ELSE <<T, S, 2>>

\* A call of split_tile on a band of the scop.
InitSplit ==
    \E dom \in Domains, D \in DepSets, c \in Skews, k \in Consts, T \in 1..MaxTile, S \in 1..MaxTile,
       sc \in BOOLEAN, sh \in BOOLEAN, ms \in BOOLEAN :
        /\ Legal(c, D)
        /\ pc = "split_tile"
        /\ node = BandNode(dom, Sched(c, k))
        /\ sizes = TileSizes(dom, T, S)
        /\ scop = Scop(D, ms)
        /\ ctx = [tile_scale_tile_loops |-> sc, tile_shift_point_loops |-> sh]
        /\ loc = NoLocals

SplitTile ==
    /\ pc = "split_tile"
    /\ \E r \in split_tile(node, scop, sizes, ctx) :
        /\ pc' = IF r.trap THEN "trap" ELSE "done"
        /\ node' = r.ret
        /\ sizes' = r.sizes
        /\ ctx' = r.ctx
        /\ loc' = r.locals
    /\ UNCHANGED scop

Next == SplitTile

Spec == InitSplit /\ [][Next]_vars

(***************************************************************************)
(* Observations on the result of split_tile.                               *)
(***************************************************************************)
\* The phases of the sequence node inserted by the finished call.
Phases == loc.phases.list

\* The indices (from 0) of the phases whose filter contains pt.
PhasesOf(pt) == {k \in 0..(Len(Phases) - 1) : InPhase(Phases[k + 1], pt)}

Split == pc = "done" /\ node # NullNode

(***************************************************************************)
(* Overlapped tiling (unnamed/part_001; overlapped_tiling.c is the same    *)
(* code with multi_dim = 0 and after_mapping = 0).                         *)
(***************************************************************************)
\* The maximal runs lo..hi of consecutive distances in D: the basic maps of
\* the coalesced dependence relation.
Coalesce(D) ==
    {r \in D \X D :
        /\ r[1] <= r[2]
        /\ \A d \in r[1]..r[2] : d \in D
        /\ (r[1] - 1) \notin D
        /\ (r[2] + 1) \notin D}

\* The constraints of the basic map of one run, each as its coefficients
\* of the output dimensions <<t', i', j'>>: t' = t + 1, then i' = i + lo
\* (an equality, its last variable positive) or the pair lo <= i' - i <= hi,
\* and j' = j.
BmapConstraints(r) ==
    {<<1, 0, 0>>, <<0, 0, 1>>}
        \cup (IF r[1] = r[2] THEN {<<0, 1, 0>>} ELSE {<<0, 1, 0>>, <<0, -1, 0>>})

\* A variant that keeps the largest coefficient only.
obtain_max_in_bmap(D, dim) ==
    LET vals == {cc[dim + 1] : cc \in UNION {BmapConstraints(r) : r \in Coalesce(D)}}
    IN  <<MaxOf(vals), 0>>

\* obtain_maxmin_in_bmap over every basic map: the largest and the smallest
\* coefficient of output dimension "dim" (from 0) among all constraints.
obtain_maxmin_in_bmap(D, dim) ==
    LET vals == {cc[dim + 1] : cc \in UNION {BmapConstraints(r) : r \in Coalesce(D)}}
    IN  <<MaxOf(vals), MinOf(vals)>>

\* The lower and upper bound of coordinate d (from 1) over the domain.
DomLo(dom, d) == CASE d = 1 -> dom.tmin [] d = 2 -> dom.imin [] OTHER -> 0
DomHi(dom, d) ==
    CASE d = 1 -> dom.tmin + dom.nt - 1
      [] d = 2 -> dom.imin + dom.ni - 1
      [] OTHER -> dom.nj - 1

\* A variant that also drops the constraints on the time dimension.
drop_dim_constraints(multi_dim) == 1..(multi_dim + 2)

\* drop_space_dim_constraints: the identity expansion loses its equalities
\* on output dimensions 1..multi_dim+1 (coordinates 2..multi_dim+2 here).
drop_space_dim_constraints(multi_dim) == 2..(multi_dim + 2)

\* add_space_dim_bounds: the domain's bounds on each freed dimension are
\* copied to the corresponding output dimension.
add_space_dim_bounds(dom, free) ==
    [d \in free |-> [lo |-> DomLo(dom, d), hi |-> DomHi(dom, d)]]

\* starting_point_cond: (schedule member of the dimension at the input
\* point) mod (tile size of the dimension) = 0.
starting_point_cond(sched, sz, d, a) == SchedVal(sched, d, a) % sz[d] = 0

\* construct_starting_point for every freed dimension.
construct_starting_point(sched, sz, free, a) ==
    \A d \in free : starting_point_cond(sched, sz, d, a)

\* construct_overlapped_cond for output dimension d of the image p of a:
\* p[d] <= a[d] + sizes[d] - 1 and
\* p[d] >= a[d] - coeff * ((sizes[d] - 1) - (t - sizes[0]*floor(t/sizes[0]))).
construct_overlapped_cond(sz, coeff, d, a, p) ==
    /\ a[d] + (sz[d] - 1) - p[d] >= 0
    /\ p[d] - (a[d] - coeff[d] * ((sz[d] - 1)
                                  - (a[1] - sz[1] * FloorDiv(a[1], sz[1])))) >= 0

\* update_expansion: the expansion relation, as the data that fix it.
update_expansion(sc, dom, sched, sz, multi_dim) ==
    LET free == drop_space_dim_constraints(multi_dim)
    IN  [type |-> "expansion",
         free |-> free,
         bounds |-> add_space_dim_bounds(dom, free),
         sched |-> sched,
         sz |-> sz,
         coeff |-> [d \in free |->
                       LET mm == obtain_maxmin_in_bmap(sc.dep_flow, d - 1)
                       IN  mm[1] - mm[2]]]

\* Whether the expansion maps the input point a to the point p.
Expands(exp, a, p) ==
    /\ Len(p) = Len(a)
    /\ \A d \in 1..Len(a) : d \notin exp.free => p[d] = a[d]
    /\ construct_starting_point(exp.sched, exp.sz, exp.free, a)
    /\ \A d \in exp.free :
        /\ exp.bounds[d].lo <= p[d] /\ p[d] <= exp.bounds[d].hi
        /\ construct_overlapped_cond(exp.sz, exp.coeff, d, a, p)

\* obtain_space_dim_size: the extent of schedule member "dim" (from 0)
\* over the domain, plus the member's constant; INT32_MAX when that is 0.
obtain_space_dim_size(dom, sched, dim) ==
    LET row == sched[dim + 1]
        clist == <<row.ct, row.ci>>
        bound == (DomHi(dom, 1) - DomLo(dom, 1)) * clist[1]
                 + (DomHi(dom, 2) - DomLo(dom, 2)) * clist[2]
                 + row.k
    IN  IF bound = 0 THEN INT32_MAX ELSE bound + 1

\* A variant of the insertion that puts the expansion node below the node.
InsertExpansionBelow(n, contraction, exp) ==
    IF n = NullNode THEN NullNode
    ELSE [n EXCEPT !.tree = SubSeq(n.tree, 1, n.pos)
                            \o <<[contraction |-> contraction] @@ exp>>
                            \o SubSeq(n.tree, n.pos + 1, Len(n.tree))]

\* isl_schedule_node_insert_expansion: the expansion node takes the node's
\* place, the node becomes its child.
InsertExpansion(n, contraction, exp) ==
    IF n = NullNode THEN NullNode
    ELSE [n EXCEPT !.tree = SubSeq(n.tree, 1, n.pos - 1)
                            \o <<[contraction |-> contraction] @@ exp>>
                            \o SubSeq(n.tree, n.pos, Len(n.tree))]

\* A setter that stores 0 whatever value it is given.
isl_options_clear_tile_shift_point_loops(c, val) ==
    [c EXCEPT !.tile_shift_point_loops = FALSE]

\* isl_options_set_tile_shift_point_loops(ctx, val).
isl_options_set_tile_shift_point_loops(c, val) ==
    [c EXCEPT !.tile_shift_point_loops = val]

\* The outcomes of overlapped_tile(node, scop, sizes, multi_dim,
\* after_mapping) under the isl options c.  The function checks none of
\* its arguments.
overlapped_tile(n, sc, sz, multi_dim, after_mapping, c) ==
    IF n = NullNode
    THEN \* every isl call yields null; scop->dep_flow is still read
         {Outcome(NullNode, sc = NullScop, sz, c, NoLocals)}
    ELSE IF NodeType(n) # "band"
    THEN \* obtain_space_dim_size reads the never assigned data.pa
         {Outcome(NullNode, TRUE, sz, c, NoLocals),
          Outcome(NullNode, FALSE, sz, c, NoLocals)}
    ELSE IF sz = NullSizes
    THEN \* isl_val_ge(NULL, val) is isl_bool_error, which is not 0
         {Outcome(BandTile(n, sz, c), FALSE, sz, c, NoLocals)}
    ELSE
    LET sched == n.tree[n.pos].sched
        bound == obtain_space_dim_size(n.domain, sched, 1)
        shift == c.tile_shift_point_loops
        during == isl_options_set_tile_shift_point_loops(c, FALSE)
        tiled == BandTile(n, sz, during)
        after == isl_options_set_tile_shift_point_loops(during, shift)
        expansion == update_expansion(sc, n.domain, sched, sz, multi_dim)
        contraction == {}
        child == NodeChild(tiled)
        result == IF after_mapping
                  THEN NodeParent(NodeParent(
                           InsertExpansion(NodeChild(BandSplit(child, 1)),
                                           contraction, expansion)))
                  ELSE NodeParent(InsertExpansion(child, contraction, expansion))
        locals == [NoLocals EXCEPT !.bound = bound]
    IN  IF sz[2] >= bound
        THEN {Outcome(BandTile(n, sz, c), FALSE, sz, c, locals)}
        ELSE IF sc = NullScop
        THEN {Outcome(tiled, TRUE, sz, after, locals)}
        ELSE \* update_expansion frees "domain" and then copies it again
             {Outcome(tiled, TRUE, sz, after, locals),
              Outcome(result, FALSE, sz, after, locals)}

\* The statement instances of the scop.
Instances == DomainPoints(node.domain)

\* The flow dependence edges between statement instances.
Edges ==
    {e \in Instances \X Instances :
        /\ e[2][1] = e[1][1] + 1
        /\ (e[2][2] - e[1][2]) \in scop.dep_flow
        /\ Len(e[1]) = 3 => e[1][3] = e[2][3]}

\* The (time, space) tile of a statement instance.
TileOf(pt) == BandPartialSchedule(Phases[1].data.tb, pt)

\* The skew of the space row of the tiled band.
Skew == node.tree[1].sched[2].ct

\* The stencil scenario: the 10 x 20 domain, the three stencil dependences,
\* tile sizes (4, 4) (min_sync off, so the sizes are used as given).
SplitScenario ==
    /\ pc = "done"
    /\ node.domain = StencilDomain
    /\ scop.dep_flow = StencilDeps
    /\ ~scop.options.min_sync
    /\ sizes = <<4, 4>>

(***************************************************************************)
(* A call of overlapped_tile.                                              *)
(***************************************************************************)
OverlapDomains ==
    {StencilDomain, Box(0, 5, 0, 7, 0), Box(0, 3, 0, 1, 0), Box(0, 2, 0, 3, 0),
     Box(1, 4, 2, 5, 2)}

OverlapDepSets == {StencilDeps, {0, 1}, {-1}, {0}, {1, 2}}

\* Every dependence distance fits in the domain.
DepsFit(dom, D) == \A d \in D : Abs(d) < dom.ni

\* The arguments multi_dim and after_mapping, the node passed in, and the
\* extent computed by the call.
OverlapLocals(md, am, arg, bound) ==
    [multi_dim |-> md, after_mapping |-> am, arg |-> arg, bound |-> bound]

InitOverlap ==
    \E dom \in OverlapDomains, D \in OverlapDepSets, c \in Skews, k \in Consts,
       T \in 1..MaxTile, S \in 1..MaxTile,
       sc \in BOOLEAN, sh \in BOOLEAN, md \in {0, 1}, am \in BOOLEAN :
        /\ Legal(c, D) /\ DepsFit(dom, D)
        /\ md = 1 => dom.nj > 0
        /\ pc = "overlapped_tile"
        /\ node = BandNode(dom, Sched(c, k))
        /\ sizes = TileSizes(dom, T, S)
        /\ scop = Scop(D, FALSE)
        /\ ctx = [tile_scale_tile_loops |-> sc, tile_shift_point_loops |-> sh]
        /\ loc = OverlapLocals(md, am, node, 0)

OverlappedTile ==
    /\ pc = "overlapped_tile"
    /\ \E r \in overlapped_tile(node, scop, sizes, loc.multi_dim,
                                loc.after_mapping, ctx) :
        /\ pc' = IF r.trap THEN "trap" ELSE "done"
        /\ node' = r.ret
        /\ sizes' = r.sizes
        /\ ctx' = r.ctx
        /\ loc' = [loc EXCEPT !.bound = r.locals.bound]
    /\ UNCHANGED scop

NextOverlap == OverlappedTile

SpecOverlap == InitOverlap /\ [][NextOverlap]_vars

(***************************************************************************)
(* Observations on the result of overlapped_tile.                          *)
(***************************************************************************)
\* The positions of the expansion nodes of the returned tree.
ExpansionNodes ==
    {q \in 1..Len(node.tree) : node.tree[q].type = "expansion"}

\* The call finished on the overlapped path.
Overlapped == pc = "done" /\ node # NullNode /\ ExpansionNodes # {}

ExpansionOf == node.tree[CHOOSE q \in ExpansionNodes : TRUE]

\* The input points that agree with p outside the expanded dimensions.
AnchorsFor(p) ==
    {a \in Instances : \A d \in 1..Len(p) : d \notin ExpansionOf.free => a[d] = p[d]}

\* The points around a that the expansion could map a to.
Around(a) ==
    LET w == 3 * MaxTile
        is == (a[2] - w)..(a[2] + w)
    IN  IF Len(a) = 2 THEN {<<a[1], i>> : i \in is}
        ELSE {<<a[1], i, j>> : i \in is, j \in (a[3] - w)..(a[3] + w)}

\* The expanded copies of the input point a.
Images(a) == {p \in Around(a) : Expands(ExpansionOf, a, p)}

\* The tile (over all band members) of a statement instance.
OTileOf(pt) == BandPartialSchedule(node.tree[1], pt)

\* The stencil scenario for overlapped tiling.
OverlapScenario ==
    /\ Overlapped
    /\ node.domain = StencilDomain
    /\ scop.dep_flow = StencilDeps
    /\ sizes = <<4, 4>>

\* The extent of the band's space member over the domain.
SpaceExtent ==
    LET vals == {SchedVal(loc.arg.tree[1].sched, 2, pt) : pt \in DomainPoints(loc.arg.domain)}
    IN  MaxOf(vals) - MinOf(vals) + 1

(***************************************************************************)
(* The entry points on arguments that may be null or not a band.           *)
(***************************************************************************)
\* struct ppcg_options, as far as the tiling core reads it.
CpuOptions(ms, tile, split, rect, ts, tss) ==
    [min_sync |-> ms, tile |-> tile, split_tile |-> split, rectangle |-> rect,
     tile_size |-> ts, tile_sizes |-> tss]

CpuScop(D, opts) == [dep_flow |-> D, options |-> opts]

\* The --tile-sizes strings: one that does not parse (a null set), fixed
\* tuples, and a tuple whose second dimension is not fixed (written 0).
TileSizesOptions == {NullSizes, <<2, 3>>, <<4>>, <<3, 0>>}

\* read_sizes_from_set: the first *len elements of the tuple overwrite
\* "sizes"; *len shrinks to the tuple's dimension; an error when an element
\* is not fixed.
read_sizes_from_set(set, tile_size, len) ==
    IF set = NullSizes THEN [error |-> FALSE, sizes |-> tile_size, len |-> len]
    ELSE LET n == IF Len(set) < len THEN Len(set) ELSE len
         IN  IF \E i \in 1..n : set[i] = 0
             THEN [error |-> TRUE, sizes |-> tile_size, len |-> n]
             ELSE [error |-> FALSE,
                   sizes |-> [i \in 1..Len(tile_size) |->
                                 IF i <= n THEN set[i] ELSE tile_size[i]],
                   len |-> n]

\* The outcomes of split_tile_read_tile_sizes(node, scop, tile_len), with
\* *tile_len the number of band members as at its call site.
split_tile_read_tile_sizes(n, sc, tile_len) ==
    IF n = NullNode \/ NodeType(n) # "band"
    THEN {[ret |-> NullSizes, trap |-> FALSE, tile_len |-> tile_len]}
    ELSE IF sc = NullScop
    THEN \* scop->options is read without a check
         {[ret |-> NullSizes, trap |-> TRUE, tile_len |-> tile_len]}
    ELSE LET tile_size == [i \in 1..tile_len |-> sc.options.tile_size]
             r == read_sizes_from_set(sc.options.tile_sizes, tile_size, tile_len)
         IN  {[ret |-> IF r.error THEN NullSizes ELSE r.sizes,
               trap |-> FALSE, tile_len |-> r.len]}

EntryDomains == {Box(0, 5, 0, 7, 0), Box(0, 3, 0, 1, 0), Box(1, 4, 2, 5, 2)}

EntryNodes ==
    {NullNode}
        \cup {FilterNode(dom) : dom \in EntryDomains}
        \cup {BandNode(dom, Sched(c, k)) : dom \in EntryDomains, c \in {1}, k \in Consts}

EntryScops ==
    {NullScop}
        \cup {CpuScop(D, CpuOptions(FALSE, TRUE, FALSE, FALSE, 2, tss)) :
                 D \in {StencilDeps, {0}}, tss \in TileSizesOptions}

EntrySizes(n) ==
    {NullSizes} \cup {TileSizes(n.domain, T, S) : T \in 1..MaxTile, S \in 1..MaxTile}

InitEntry ==
    \E entry \in {"split_tile", "overlapped_tile", "split_tile_read_tile_sizes"},
       n \in EntryNodes, sc \in EntryScops, am \in BOOLEAN,
       scale \in BOOLEAN, shift \in BOOLEAN :
      \E sz \in EntrySizes(n) :
        /\ pc = entry
        /\ node = n
        /\ scop = sc
        /\ sizes = IF entry = "split_tile_read_tile_sizes" THEN NullSizes ELSE sz
        /\ ctx = [tile_scale_tile_loops |-> scale, tile_shift_point_loops |-> shift]
        /\ loc = CASE entry = "split_tile" -> NoLocals
                   [] entry = "overlapped_tile" -> OverlapLocals(0, am, n, 0)
                   [] OTHER -> [tile_len |-> IF IsBand(n) THEN BandNMember(n) ELSE 2]

ReadTileSizes ==
    /\ pc = "split_tile_read_tile_sizes"
    /\ \E r \in split_tile_read_tile_sizes(node, scop, loc.tile_len) :
        /\ pc' = IF r.trap THEN "trap" ELSE "done"
        /\ sizes' = r.ret
        /\ loc' = [loc EXCEPT !.tile_len = r.tile_len]
    /\ UNCHANGED <<node, scop, ctx>>

NextEntry == SplitTile \/ OverlappedTile \/ ReadTileSizes

SpecEntry == InitEntry /\ [][NextEntry]_vars

\* The arguments of the pending call are malformed.
Malformed ==
    \/ node = NullNode
    \/ NodeType(node) # "band"
    \/ scop = NullScop
    \/ pc # "split_tile_read_tile_sizes" /\ sizes = NullSizes

(***************************************************************************)
(* The CPU driver (cpu.c).                                                 *)
(***************************************************************************)
\* tile: isl_schedule_node_band_tile (the AST loop type is not modelled).
\* ppcg_set_schedule_node_type: every member of the band node gets the AST
\* loop type.
ppcg_set_schedule_node_type(n, type) ==
    IF n = NullNode \/ ~IsBand(n) THEN NullNode
    ELSE [n EXCEPT !.tree[n.pos].loop_type =
                       [m \in DOMAIN @ |->
                           IF \E q \in 1..Len(n.tree[n.pos].members) :
                                  n.tree[n.pos].members[q] = m
                           THEN type ELSE @[m]]]

\* tile: band tiling, then every member of the tile band is marked atomic.
tile(n, sz, c) == ppcg_set_schedule_node_type(BandTile(n, sz, c), "atomic")

\* ppcg_multi_val_from_int: one copy of the value per band member.
ppcg_multi_val_from_int(n, val) == [m \in 1..BandNMember(n) |-> val]

\* A variant of tile_band that looks at the rectangle option first.
tile_band_rectangle_first(n, sc, c) ==
    IF NodeType(n) # "band" THEN {Outcome(n, FALSE, NullSizes, c, NoLocals)}
    ELSE IF BandNMember(n) <= 1 THEN {Outcome(n, FALSE, NullSizes, c, NoLocals)}
    ELSE LET sz == ppcg_multi_val_from_int(n, sc.options.tile_size)
         IN  IF sc.options.rectangle
             THEN overlapped_tile(n, sc, sz, 0, FALSE, c)
             ELSE IF sc.options.split_tile THEN split_tile(n, sc, sz, c)
             ELSE {Outcome(tile(n, sz, c), FALSE, sz, c, NoLocals)}

\* The outcomes of tile_band(node, user = scop).
tile_band(n, sc, c) ==
    IF NodeType(n) # "band" THEN {Outcome(n, FALSE, NullSizes, c, NoLocals)}
    ELSE IF BandNMember(n) <= 1 THEN {Outcome(n, FALSE, NullSizes, c, NoLocals)}
    ELSE LET sz == ppcg_multi_val_from_int(n, sc.options.tile_size)
         IN  IF sc.options.split_tile THEN split_tile(n, sc, sz, c)
             ELSE IF sc.options.rectangle
             THEN overlapped_tile(n, sc, sz, 0, FALSE, c)
             ELSE {Outcome(tile(n, sz, c), FALSE, sz, c, NoLocals)}

\* The outcomes of get_schedule(ps, options) on the schedule whose root
\* band is n: the nodes below n are no bands and tile_band returns them as
\* they are, then tile_band maps n; a null node makes the schedule null.
get_schedule(ps, n, c) ==
    IF ps = NullScop THEN {Outcome(NullNode, FALSE, NullSizes, c, NoLocals)}
    ELSE IF ps.options.tile \/ ps.options.split_tile \/ ps.options.rectangle
    THEN tile_band(n, ps, c)
    ELSE {Outcome(n, FALSE, NullSizes, c, NoLocals)}

\* A schedule whose only band has one member.
OneMemberBand(dom) ==
    [tree |-> <<OrigBand(1, Sched(0, 0)), Leaf>>, pos |-> 1, domain |-> dom]

CpuSchedules ==
    {BandNode(dom, Sched(c, k)) : dom \in Domains, c \in Skews, k \in Consts}
        \cup {OneMemberBand(StencilDomain), FilterNode(StencilDomain)}

InitCpu ==
    \E n \in CpuSchedules, D \in DepSets, ts \in 1..MaxTile,
       opt \in {"none", "tile", "split_tile", "rectangle"},
       ms \in BOOLEAN, scale \in BOOLEAN, shift \in BOOLEAN, null \in BOOLEAN :
        /\ IsBand(n) /\ BandNMember(n) > 1 => Legal(n.tree[1].sched[2].ct, D)
        /\ pc = "get_schedule"
        /\ node = n
        /\ scop = IF null THEN NullScop
                  ELSE CpuScop(D, CpuOptions(ms, opt = "tile", opt = "split_tile",
                                             opt = "rectangle", ts, NullSizes))
        /\ sizes = NullSizes
        /\ ctx = [tile_scale_tile_loops |-> scale, tile_shift_point_loops |-> shift]
        /\ loc = NoLocals

GetSchedule ==
    /\ pc = "get_schedule"
    /\ \E r \in get_schedule(scop, node, ctx) :
        /\ pc' = IF r.trap THEN "trap" ELSE "done"
        /\ node' = r.ret
        /\ sizes' = r.sizes
        /\ ctx' = r.ctx
        /\ loc' = r.locals
    /\ UNCHANGED scop

NextCpu == GetSchedule

SpecCpu == InitCpu /\ [][NextCpu]_vars

(***************************************************************************)
(* A call of tile_band on one node of the schedule, under every            *)
(* combination of the tiling options.                                      *)
(***************************************************************************)
InitTileBand ==
    \E n \in CpuSchedules, D \in DepSets, ts \in 1..MaxTile,
       tl \in BOOLEAN, split \in BOOLEAN, rect \in BOOLEAN,
       ms \in BOOLEAN, scale \in BOOLEAN, shift \in BOOLEAN :
        /\ IsBand(n) /\ BandNMember(n) > 1 => Legal(n.tree[1].sched[2].ct, D)
        /\ pc = "tile_band"
        /\ node = n
        /\ scop = CpuScop(D, CpuOptions(ms, tl, split, rect, ts, NullSizes))
        /\ sizes = NullSizes
        /\ ctx = [tile_scale_tile_loops |-> scale, tile_shift_point_loops |-> shift]
        /\ loc = [arg |-> n]

TileBand ==
    /\ pc = "tile_band"
    /\ \E r \in tile_band(node, scop, ctx) :
        /\ pc' = IF r.trap THEN "trap" ELSE "done"
        /\ node' = r.ret
        /\ sizes' = r.sizes
        /\ ctx' = r.ctx
    /\ UNCHANGED <<scop, loc>>

NextTileBand == TileBand

SpecTileBand == InitTileBand /\ [][NextTileBand]_vars

(***************************************************************************)
(* A call of split_tile with tile sizes that fit the band and with tile    *)
(* sizes over another space, on which isl_schedule_node_band_tile fails.   *)
(***************************************************************************)
InitProbe ==
    \E dom \in Domains, D \in DepSets, c \in Skews, k \in Consts,
       T \in 1..MaxTile, S \in 1..MaxTile, ms \in BOOLEAN :
      \E sz \in {TileSizes(dom, T, S), <<T>>,
                 IF dom.nj = 0 THEN <<T, S, 2>> ELSE <<T, S>>} :
        /\ Legal(c, D)
        /\ pc = "split_tile"
        /\ node = BandNode(dom, Sched(c, k))
        /\ sizes = sz
        /\ scop = Scop(D, ms)
        /\ ctx = [tile_scale_tile_loops |-> FALSE, tile_shift_point_loops |-> FALSE]
        /\ loc = NoLocals

NextProbe == SplitTile

SpecProbe == InitProbe /\ [][NextProbe]_vars

(***************************************************************************)
(* The before-for and after-for callbacks of the AST generation.  "node"   *)
(* is the stack of the for nodes under construction, outermost first, each *)
(* with the outcome of ast_schedule_dim_is_parallel on its build and with  *)
(* its annotation; "loc" holds build_info and the node that the last       *)
(* ast_build_after_for returned.                                           *)
(***************************************************************************)
MaxDepth == 5

\* allocate_ast_node_userinfo.
allocate_ast_node_userinfo == [is_openmp |-> 0]

\* init_build_info: the fields of build_info that the callbacks use.
init_build_info == [in_parallel_for |-> 0]

\* A variant of mark_openmp_parallel without the test of in_parallel_for.
mark_openmp_parallel_nested(build_info, node_info, parallel) ==
    IF parallel
    THEN [build_info |-> [build_info EXCEPT !.in_parallel_for = 1],
          node_info |-> [node_info EXCEPT !.is_openmp = 1]]
    ELSE [build_info |-> build_info, node_info |-> node_info]

\* mark_openmp_parallel; "parallel" is what ast_schedule_dim_is_parallel
\* gives on the build.
mark_openmp_parallel(build_info, node_info, parallel) ==
    IF build_info.in_parallel_for # 0
    THEN [build_info |-> build_info, node_info |-> node_info]
    ELSE IF parallel
    THEN [build_info |-> [build_info EXCEPT !.in_parallel_for = 1],
          node_info |-> [node_info EXCEPT !.is_openmp = 1]]
    ELSE [build_info |-> build_info, node_info |-> node_info]

\* ast_build_before_for: the annotation of the new for node and build_info.
ast_build_before_for(parallel, build_info) ==
    mark_openmp_parallel(build_info, allocate_ast_node_userinfo, parallel)

\* A variant of ast_build_after_for that resets the flag on every for node.
ast_build_after_for_reset(info, build_info) ==
    [build_info EXCEPT !.in_parallel_for = 0]

\* ast_build_after_for: build_info after the for node with annotation
\* "info" is finished.
ast_build_after_for(info, build_info) ==
    IF info.is_openmp # 0
    THEN [build_info EXCEPT !.in_parallel_for = 0]
    ELSE build_info

InitOpenMP ==
    /\ pc = "ast_build"
    /\ node = <<>>
    /\ sizes = NullSizes
    /\ scop = NullScop
    /\ ctx = [tile_scale_tile_loops |-> FALSE, tile_shift_point_loops |-> FALSE]
    /\ loc = [build_info |-> init_build_info, returned |-> [parallel |-> FALSE, info |-> [is_openmp |-> -1]]]

BeforeFor ==
    /\ pc = "ast_build"
    /\ Len(node) < MaxDepth
    /\ \E parallel \in BOOLEAN :
        LET r == ast_build_before_for(parallel, loc.build_info)
        IN  /\ node' = Append(node, [parallel |-> parallel, info |-> r.node_info])
            /\ loc' = [loc EXCEPT !.build_info = r.build_info]
    /\ UNCHANGED <<pc, sizes, scop, ctx>>

AfterFor ==
    /\ pc = "ast_build"
    /\ Len(node) > 0
    /\ LET top == node[Len(node)]
       IN  /\ loc' = [build_info |-> ast_build_after_for(top.info, loc.build_info),
                      returned |-> top]
           /\ node' = SubSeq(node, 1, Len(node) - 1)
    /\ UNCHANGED <<pc, sizes, scop, ctx>>

NextOpenMP == BeforeFor \/ AfterFor

SpecOpenMP == InitOpenMP /\ [][NextOpenMP]_vars

\* The for nodes under construction that are marked is_openmp.
Marked == {q \in 1..Len(node) : node[q].info.is_openmp = 1}

(***************************************************************************)
(* drop_str and drop_braces on character buffers.  A buffer is a sequence  *)
(* of characters that holds a terminating Nul; the characters after the    *)
(* first Nul are what earlier contents left there.                         *)
(***************************************************************************)
MaxLen == 4

Nul == "NUL"

\* The strings of at most n characters, over braces, the blank and a letter.
Strings(n) == UNION {[1..k -> {"{", "}", " ", "a"}] : k \in 0..n}

\* The string a buffer holds: the characters before the first Nul.
CStr(buf) ==
    LET end == CHOOSE q \in 1..Len(buf) :
                   buf[q] = Nul /\ \A r \in 1..(q - 1) : buf[r] # Nul
    IN  SubSeq(buf, 1, end - 1)

\* Whether sub, in full, is at position p of the buffer.
MatchAt(buf, sub, p) ==
    \A i \in 1..Len(sub) : p + i - 1 <= Len(buf) /\ buf[p + i - 1] = sub[i]

\* while ((*p++ = *s1++)): the characters from s1 up to and with the next
\* Nul move to p.
CopyTail(buf, p, s1) ==
    LET n == Len(CStr(SubSeq(buf, s1, Len(buf)))) + 1
    IN  [q \in 1..Len(buf) |->
            IF p <= q /\ q < p + n THEN buf[s1 + (q - p)] ELSE buf[q]]

\* The loop of drop_str with p at position p (from 1) of the buffer: after
\* a removal p goes back to str and is then advanced by the p++ that ends
\* the iteration.
RECURSIVE drop_str_from(_, _, _)
drop_str_from(buf, sub, p) ==
    IF buf[p] = Nul \/ sub = <<>> THEN buf
    ELSE IF MatchAt(buf, sub, p)
    THEN drop_str_from(CopyTail(buf, p, p + Len(sub)), sub, 1 + 1)
    ELSE drop_str_from(buf, sub, p + 1)

\* drop_str(str, sub): the buffer it leaves (and returns).
drop_str(buf, sub) == drop_str_from(buf, sub, 1)

\* drop_braces(name).
drop_braces(name) == drop_str(drop_str(drop_str(name, <<"{">>), <<"}">>), <<" ">>)

InitStr ==
    \E str \in Strings(MaxLen), sub \in Strings(2) \ {<<>>},
       op \in {"drop_str", "drop_braces"} :
        /\ op = "drop_braces" => sub = <<"{">>
        /\ pc = op
        /\ node = NullNode
        /\ sizes = NullSizes
        /\ scop = NullScop
        /\ ctx = [tile_scale_tile_loops |-> FALSE, tile_shift_point_loops |-> FALSE]
        /\ loc = [op |-> op, arg |-> str, sub |-> sub, str |-> str \o <<Nul>>]

DropStr ==
    /\ pc = "drop_str"
    /\ pc' = "done"
    /\ loc' = [loc EXCEPT !.str = drop_str(loc.str, loc.sub)]
    /\ UNCHANGED <<node, sizes, scop, ctx>>

DropBraces ==
    /\ pc = "drop_braces"
    /\ pc' = "done"
    /\ loc' = [loc EXCEPT !.str = drop_braces(loc.str)]
    /\ UNCHANGED <<node, sizes, scop, ctx>>

NextStr == DropStr \/ DropBraces

SpecStr == InitStr /\ [][NextStr]_vars

\* Whether the string str holds sub somewhere.
Contains(str, sub) ==
    \E q \in 1..Len(str) :
        q + Len(sub) - 1 <= Len(str) /\ SubSeq(str, q, q + Len(sub) - 1) = sub

(***************************************************************************)
(* A call of split_tile on domains with one or with several time steps.    *)
(***************************************************************************)
SyncDomains == {Box(0, 1, 0, 7, 0), Box(0, 5, 0, 7, 0), Box(1, 4, 2, 5, 2)}

SyncDepSets == {StencilDeps, {0, 1}, {0}, {1, 2}}

InitSync ==
    \E dom \in SyncDomains, D \in SyncDepSets, c \in {1, 2}, k \in Consts,
       T \in 1..MaxTile, S \in 1..MaxTile,
       sc \in BOOLEAN, sh \in BOOLEAN, ms \in BOOLEAN :
        /\ pc = "split_tile"
        /\ node = BandNode(dom, Sched(c, k))
        /\ sizes = TileSizes(dom, T, S)
        /\ scop = Scop(D, ms)
        /\ ctx = [tile_scale_tile_loops |-> sc, tile_shift_point_loops |-> sh]
        /\ loc = NoLocals

NextSync == SplitTile

SpecSync == InitSync /\ [][NextSync]_vars

(***************************************************************************)
(* A call of split_tile on a band whose statement may have the same        *)
(* schedule row for the time member and for the first space member.        *)
(***************************************************************************)
\* The schedule (t, t) of a statement that does not move along space.
InvariantSched == <<[ct |-> 1, ci |-> 0, k |-> 0], [ct |-> 1, ci |-> 0, k |-> 0]>>

ExemptScheds == {InvariantSched, Sched(1, 0), Sched(1, 1)}

ExemptDomains == {Box(0, 5, 0, 7, 0), Box(0, 4, 0, 1, 0)}

InitExempt ==
    \E dom \in ExemptDomains, D \in {StencilDeps, {0, 1}}, sched \in ExemptScheds,
       T \in 1..MaxTile, S \in 1..MaxTile,
       sc \in BOOLEAN, sh \in BOOLEAN, ms \in BOOLEAN :
        /\ DepsFit(dom, D) \/ sched = InvariantSched
        /\ pc = "split_tile"
        /\ node = BandNode(dom, sched)
        /\ sizes = TileSizes(dom, T, S)
        /\ scop = Scop(D, ms)
        /\ ctx = [tile_scale_tile_loops |-> sc, tile_shift_point_loops |-> sh]
        /\ loc = NoLocals

NextExempt == SplitTile

SpecExempt == InitExempt /\ [][NextExempt]_vars

\* The point-loop expressions of the time member and of the first space
\* member of the band are the same text: same schedule row, same tile size.
SameExpression ==
    /\ node.tree[1].sched[1] = node.tree[1].sched[2]
    /\ sizes[1] = sizes[2]

(***************************************************************************)
(* A call of obtain_time_dim_size on the domain of a band.                 *)
(***************************************************************************)
MaxExtent == 6

TimeDomains ==
    {Box(tmin, nt, imin, ni, 0) :
        tmin \in -2..2, nt \in 1..MaxExtent, imin \in 0..1, ni \in 1..3}

InitTimeDim ==
    \E dom \in TimeDomains :
        /\ pc = "obtain_time_dim_size"
        /\ node = BandNode(dom, Sched(1, 0))
        /\ sizes = NullSizes
        /\ scop = Scop(StencilDeps, FALSE)
        /\ ctx = [tile_scale_tile_loops |-> FALSE, tile_shift_point_loops |-> FALSE]
        /\ loc = NoLocals

ObtainTimeDimSize ==
    /\ pc = "obtain_time_dim_size"
    /\ pc' = "done"
    /\ loc' = [loc EXCEPT !.bound = obtain_time_dim_size(node.domain)]
    /\ UNCHANGED <<node, sizes, scop, ctx>>

NextTimeDim == ObtainTimeDimSize

SpecTimeDim == InitTimeDim /\ [][NextTimeDim]_vars

\* max - min + 1 of the time coordinate over the domain of the node.
TimeWidth ==
    LET ts == {pt[1] : pt \in Instances}
    IN  MaxOf(ts) - MinOf(ts) + 1

(***************************************************************************)
(* Claims on split tiling.                                                 *)
(***************************************************************************)
\* C1: phase exhaustiveness.  After split_tile, every statement instance of
\* the domain satisfies the filter of at least one of the n_list phases,
\* for all tile sizes and every number of phases.
PhaseExhaustiveness ==
    Split => \A pt \in Instances : PhasesOf(pt) # {}

\* C1 (witness): a finished call with at least three phases and different
\* time and space tile sizes, in which the first, a middle and the last
\* phase each hold some instance.
PhaseExhaustivenessWitness ==
    /\ Split
    /\ Len(Phases) >= 3
    /\ sizes[1] # sizes[2]
    /\ \A k \in {0, 1, Len(Phases) - 1} : \E pt \in Instances : k \in PhasesOf(pt)

\* C2: phase disjointness.  After split_tile, no statement instance
\* satisfies the filters of two different phases, whatever the tile sizes.
PhaseDisjointness ==
    Split => \A pt \in Instances : Cardinality(PhasesOf(pt)) <= 1

\* C2 (witness): the stencil under schedule (t, t + i) and tile sizes
\* (4, 2): instance S(8, 0) satisfies the filters of phase 0 and phase 2.
PhaseOverlapWitness ==
    /\ Split
    /\ node.domain = StencilDomain /\ scop.dep_flow = StencilDeps
    /\ Skew = 1 /\ sizes = <<4, 2>>
    /\ {0, 2} \subseteq PhasesOf(<<8, 0>>)

\* C3: phase monotonicity.  Every flow dependence edge whose two ends lie
\* in the same time tile but in different tiles along the first space
\* member goes from a phase to a strictly later phase.
PhaseMonotonicity ==
    Split =>
        \A e \in Edges :
            (TileOf(e[1])[1] = TileOf(e[2])[1] /\ TileOf(e[1])[2] # TileOf(e[2])[2])
                => \A kp \in PhasesOf(e[1]), kq \in PhasesOf(e[2]) : kp < kq

\* C3 (witness): the stencil under schedule (t, t + i) and tile sizes
\* (4, 3): the edge S(4, 1) -> S(5, 2) stays in one time tile, crosses a
\* space tile boundary, and its sink is in no later phase than its source.
PhaseBackwardWitness ==
    /\ Split
    /\ node.domain = StencilDomain /\ scop.dep_flow = StencilDeps
    /\ Skew = 1 /\ sizes = <<4, 3>>
    /\ TileOf(<<4, 1>>)[1] = TileOf(<<5, 2>>)[1]
    /\ TileOf(<<4, 1>>)[2] # TileOf(<<5, 2>>)[2]
    /\ \E kp \in PhasesOf(<<4, 1>>), kq \in PhasesOf(<<5, 2>>) : kp >= kq

PhaseOrder ==
    Split =>
        /\ node.pos = 1
        /\ node.tree[1].type = "band" /\ node.tree[1].role = "tile"
        /\ node.tree[1].members = <<1>>
        /\ node.tree[2].type = "sequence"
        /\ Len(node.tree[2].filters) = loc.n_list
        /\ node.tree[2].filters = Phases
        /\ \A k \in 1..loc.n_list : node.tree[2].filters[k].order = k - 1
        /\ \A q \in 3..Len(node.tree) : node.tree[q].type # "sequence"

\* C11 (witness): a finished call on a three-member band with at least
\* three phases.
PhaseOrderWitness ==
    /\ Split
    /\ loc.splitted
    /\ loc.n_list >= 3
    /\ node.tree[2].type = "sequence"
    /\ node.tree[3].type = "band" /\ node.tree[3].members = <<2>>

\* The raw difference of the space tile coordinates of the sink tile and
\* the source tile of the finished call.
TileCoordDiff == loc.sink_tile[2] - loc.source_tile[2]

TimeDimSizeIsWidth ==
    pc = "done" => (loc.bound = TimeWidth /\ loc.bound # 0)

\* C13 (failing case): the domain has one time step and the function
\* returned INT32_MAX.
SingleStepUnboundedWitness ==
    /\ pc = "done"
    /\ TimeWidth = 1
    /\ loc.bound = INT32_MAX

DeltaUnboundedWitness ==
    /\ Split
    /\ scop.options.min_sync
    /\ node.domain.nt = 1 /\ loc.bound = INT32_MAX
    /\ loc.delta = sizes[1] - 1 /\ sizes[1] = 3

\* C15: slope.  For every time tile size >= 1 and every factor the probe
\* returns, split_tile_compute_slope is defined and its result times the
\* space advance from source_point to sink_point is the time advance.
SlopeIsInverseOfFactor ==
    pc # "split_tile" =>
        /\ pc = "done"
        /\ loc.slope * (loc.sink_point[2] - loc.source_point[2])
               = loc.sink_point[1] - loc.source_point[1]

\* C15 (failing case): the dependences S(t,i) -> S(t+1,i+1) and
\* S(t,i) -> S(t+1,i+2) give factor 2; with a time tile size of 4 the sink
\* point is 3 time steps and 6 space steps away and the slope is 3 / 6 = 0.
SlopeTruncatedWitness ==
    /\ Split
    /\ loc.factor = 2
    /\ loc.delta = 3
    /\ loc.sink_point[2] - loc.source_point[2] = 6
    /\ loc.slope = 0

\* B - k*space_tile_size + (time - space_tile_size*floor(time/tile_time_size))
\* at the statement instance pt, B being the bound of construct_bound.
TemplateEdge(k, pt) ==
    BoundVal(Phases[1].data.bound, pt) - k * sizes[2]
        + (pt[1] - sizes[2] * FloorDiv(pt[1], sizes[1]))

\* C16: phase bound template, as stated.  Phase 0 has no lower bound, the
\* last phase has no upper bound, and for 0 < k the lower bound of phase k
\* is the template at k and its upper bound the template at k - 1.
PhaseTemplateAsStated ==
    Split =>
        /\ ~Phases[1].has_lb
        /\ ~Phases[Len(Phases)].has_ub
        /\ \A k \in 1..(Len(Phases) - 1) : \A pt \in Instances :
              LET ph == Phases[k + 1]
              IN  InPhase(ph, pt) <=>
                      /\ TemplateEdge(k, pt) <= ExprVal(ph.data, pt)
                      /\ k < Len(Phases) - 1 =>
                             ExprVal(ph.data, pt) < TemplateEdge(k - 1, pt)

\* C16 (amended): phase 0 has the lower bound B and no upper bound, the
\* last phase has an upper bound and no lower bound; for 0 < k < n_list - 1
\* the lower bound of phase k is the template at k; the upper bound of
\* phase 1 is B and that of phase k > 1 is the template at k - 1.
PhaseTemplate ==
    Split =>
        \A k \in 0..(Len(Phases) - 1) : \A pt \in Instances :
            LET ph == Phases[k + 1]
                B == BoundVal(ph.data.bound, pt)
                expr == ExprVal(ph.data, pt)
                last == Len(Phases) - 1
                lower == IF k = 0 THEN B <= expr
                         ELSE IF k < last THEN TemplateEdge(k, pt) <= expr
                         ELSE TRUE
                upper == IF k = 0 THEN TRUE
                         ELSE IF k = 1 THEN expr < B
                         ELSE expr < TemplateEdge(k - 1, pt)
            IN  /\ ph.has_lb = (k < last)
                /\ ph.has_ub = (k > 0)
                /\ InPhase(ph, pt) <=> (lower /\ upper)

\* C16 (witness): a finished call with four phases or more and different
\* time and space tile sizes; some instance satisfies the constraint of
\* phase 0 only because that phase has no upper bound, and some instance
\* lies in a middle phase.
PhaseTemplateWitness ==
    /\ Split
    /\ Len(Phases) >= 4
    /\ sizes[1] # sizes[2]
    /\ \E pt \in Instances :
          /\ InPhase(Phases[1], pt)
          /\ ExprVal(Phases[1].data, pt) > BoundVal(Phases[1].data.bound, pt)
    /\ \E pt \in Instances : InPhase(Phases[3], pt)

\* C17: range of the bound.  After split_tile the value of the bound
\* expression of construct_bound at every statement instance lies in
\* [0, size), size being the space tile size, whatever the constant of the
\* statement's schedule.
BoundWithinTile ==
    Split =>
        \A pt \in Instances :
            /\ 0 <= BoundVal(Phases[1].data.bound, pt)
            /\ BoundVal(Phases[1].data.bound, pt) < sizes[2]

\* C17 (failing case): the schedule row of the space member has the
\* constant 1; at some instance the bound equals the space tile size.
BoundEqualsSizeWitness ==
    /\ Split
    /\ Phases[1].data.bound.constant = 1
    /\ Phases[1].data.bound.space_shift = 0
    /\ \E pt \in Instances : BoundVal(Phases[1].data.bound, pt) = sizes[2]

\* C18: exempt statements.  After split_tile, a statement whose point-loop
\* expression is the same for the time member and the first space member
\* has every instance in every phase; any other statement has a constraint
\* in every phase.
ExemptInEveryPhase ==
    Split =>
        IF SameExpression
        THEN \A pt \in Instances : PhasesOf(pt) = 0..(Len(Phases) - 1)
        ELSE \A k \in 1..Len(Phases) :
                 /\ ~Phases[k].data.no_constraints
                 /\ Phases[k].has_lb \/ Phases[k].has_ub

\* C18 (witness): a finished call on the schedule (t, t) with equal tile
\* sizes of 2 or more; every instance is in both phases.
ExemptWitness ==
    /\ Split
    /\ SameExpression
    /\ sizes[2] >= 2
    /\ Len(Phases) = 2
    /\ Phases[1].data.no_constraints
    /\ \A pt \in Instances : PhasesOf(pt) = 0..(Len(Phases) - 1)

\* C19: bands of more than two members.  After split_tile on such a band
\* the tile band is split into the time member, the first space member and
\* the remaining members, in this order, the sequence sitting below the
\* time member; the phases are built from the first two members of the
\* point band only, and two instances that differ only in the remaining
\* coordinates are in the same phases.
SuffixUnconstrained ==
    (Split /\ loc.splitted) =>
        /\ node.tree[1].role = "tile" /\ node.tree[1].members = <<1>>
        /\ node.tree[2].type = "sequence"
        /\ node.tree[3].role = "tile" /\ node.tree[3].members = <<2>>
        /\ node.tree[4].role = "tile" /\ node.tree[4].members = <<3>>
        /\ node.tree[5].role = "point" /\ node.tree[5].members = <<1, 2, 3>>
        /\ Phases[1].data.pb.members = <<1, 2>>
        /\ \A p \in Instances : \A q \in Instances :
              (p[1] = q[1] /\ p[2] = q[2]) => PhasesOf(p) = PhasesOf(q)

\* C19 (witness): a finished call on a three-member band; two instances
\* that differ only in the third coordinate share their phases, and two
\* instances that differ in the second coordinate do not.
SuffixUnconstrainedWitness ==
    /\ Split /\ loc.splitted
    /\ BandNMember([node EXCEPT !.pos = 5]) = 3
    /\ \E p \in Instances : \E q \in Instances :
          /\ p[1] = q[1] /\ p[2] = q[2] /\ p[3] # q[3]
          /\ PhasesOf(p) = PhasesOf(q)
    /\ \E p \in Instances : \E q \in Instances :
          /\ p[1] = q[1] /\ p[3] = q[3]
          /\ PhasesOf(p) # PhasesOf(q)

(***************************************************************************)
(* Claims on overlapped tiling.                                            *)
(***************************************************************************)
\* C4: halo soundness.  After overlapped_tile, for every flow dependence
\* edge whose ends lie in one time tile but in different tiles, the sink's
\* tile holds an input point that the expansion maps to the source.
HaloSoundness ==
    Overlapped =>
        \A e \in Edges :
            (OTileOf(e[1])[1] = OTileOf(e[2])[1] /\ OTileOf(e[1]) # OTileOf(e[2]))
                => \E a \in AnchorsFor(e[1]) :
                       OTileOf(a) = OTileOf(e[2]) /\ Expands(ExpansionOf, a, e[1])

\* C5: round trip.  After overlapped_tile, the images of the domain's
\* points under the expansion are exactly the domain's points.
OverlapRoundTrip ==
    Overlapped =>
        /\ \A p \in Instances : \E a \in AnchorsFor(p) : Expands(ExpansionOf, a, p)
        /\ \A a \in Instances : Images(a) \subseteq Instances

\* C6: non-overlap fallback.  When the tile size of the space member is at
\* least the extent of that member over the domain, overlapped_tile returns
\* the plainly tiled band and the tree has no expansion node.
NonOverlapFallback ==
    (pc = "done" /\ sizes[2] >= SpaceExtent) =>
        /\ node = BandTile(loc.arg, sizes, ctx)
        /\ ExpansionNodes = {}

\* C10: overlapped-tiling scenario.  For the stencil with tile sizes (4, 4)
\* the coefficient of the first space dimension is 2, and every expanded
\* copy p of an input point a has a[2] - 6 <= p[2] and 0 <= p[2] < 20.
OverlapScenarioHalo ==
    OverlapScenario =>
        /\ ExpansionOf.coeff[2] = 2
        /\ \A a \in Instances : \A p \in Images(a) :
              a[2] - 6 <= p[2] /\ 0 <= p[2] /\ p[2] < 20

\* C10 (witness): the scenario is reached, an input point has a copy
\* exactly 6 below itself, and another one has its copies clipped at 0.
OverlapScenarioWitness ==
    /\ OverlapScenario
    /\ \E a \in Instances : \E p \in Images(a) : p[2] = a[2] - 6
    /\ \E a \in Instances : a[2] - 6 < 0 /\ Images(a) # {}
                            /\ a[1] % 4 = 0 /\ \A p \in Images(a) : p[2] >= 0

\* C4 (failing case): the stencil under schedule (t, t + i) and tile sizes
\* (4, 4); the edge S(0,19) -> S(1,19) crosses from space tile 4 to space
\* tile 5 inside time tile 0, and no input point of the sink's tile is
\* expanded to S(0,19).
HaloMissingWitness ==
    /\ OverlapScenario /\ Skew = 1 /\ node.tree[1].sched[2].k = 0
    /\ ~ctx.tile_scale_tile_loops
    /\ <<<<0, 19>>, <<1, 19>>>> \in Edges
    /\ OTileOf(<<0, 19>>) = <<0, 4>> /\ OTileOf(<<1, 19>>) = <<0, 5>>
    /\ ~\E a \in AnchorsFor(<<0, 19>>) :
           OTileOf(a) = OTileOf(<<1, 19>>) /\ Expands(ExpansionOf, a, <<0, 19>>)

\* C5 (failing case): the stencil under schedule (t, t + i) and tile sizes
\* (4, 4); no input point is expanded to S(3,0).
PointLostWitness ==
    /\ OverlapScenario /\ Skew = 1 /\ node.tree[1].sched[2].k = 0
    /\ <<3, 0>> \in Instances
    /\ ~\E a \in AnchorsFor(<<3, 0>>) : Expands(ExpansionOf, a, <<3, 0>>)

\* C6 (failing case): the space member has an extent of one point, the tile
\* size is at least 1, and the returned tree holds an expansion node.
ExtentOneOverlapsWitness ==
    /\ pc = "done" /\ SpaceExtent = 1 /\ sizes[2] >= SpaceExtent
    /\ loc.bound = INT32_MAX
    /\ ExpansionNodes # {}

\* C20: overlap bounds.  After overlapped_tile, every copy p of an input
\* point a satisfies, in every expanded dimension j,
\* a[j] - coeff*(T - 1 - (t - T*floor(t/T))) <= p[j] <= a[j] + (S_j - 1),
\* T being the time tile size and S_j the tile size of dimension j.
OverlapBounds ==
    Overlapped =>
        \A a \in Instances : \A p \in Images(a) : \A j \in ExpansionOf.free :
            /\ a[j] - ExpansionOf.coeff[j]
                        * (sizes[1] - 1 - (a[1] - sizes[1] * FloorDiv(a[1], sizes[1])))
                   <= p[j]
            /\ p[j] <= a[j] + (sizes[j] - 1)

\* C20 (failing case): the stencil with tile sizes (2, 4) (time tile size
\* smaller than the space tile size): the input point S(0,4) has the copy
\* S(0,0), below 4 - 2*(2 - 1 - 0) = 2.
HaloTooWideWitness ==
    /\ Overlapped
    /\ node.domain = StencilDomain
    /\ scop.dep_flow = StencilDeps
    /\ sizes = <<2, 4>>
    /\ ExpansionOf.coeff[2] = 2
    /\ <<0, 0>> \in Images(<<0, 4>>)

\* The input points of the tile of p, at p's time step, that satisfy the
\* starting-point condition in every expanded dimension.
TileAnchors(p) ==
    {a \in AnchorsFor(p) :
        /\ OTileOf(a) = OTileOf(p)
        /\ \A j \in ExpansionOf.free :
              SchedVal(loc.arg.tree[1].sched, j, a) % sizes[j] = 0}

\* C21: starting-point condition.  After overlapped_tile, every input point
\* that has a copy satisfies (schedule member j at the point) mod sizes[j]
\* = 0 in every expanded dimension j, and every tile has exactly one such
\* point at each of its time steps.
AnchorPerTile ==
    Overlapped =>
        /\ \A a \in Instances :
              Images(a) # {} =>
                  \A j \in ExpansionOf.free :
                      SchedVal(loc.arg.tree[1].sched, j, a) % sizes[j] = 0
        /\ \A p \in Instances : Cardinality(TileAnchors(p)) = 1

\* C21 (failing case): the stencil under schedule (t, t + i) and tile sizes
\* (4, 4); the tile of S(1,0) holds S(1,0), S(1,1) and S(1,2) at time step 1
\* and none of them satisfies (t + i) mod 4 = 0.
TileWithoutAnchorWitness ==
    /\ OverlapScenario /\ Skew = 1 /\ node.tree[1].sched[2].k = 0
    /\ ~ctx.tile_scale_tile_loops
    /\ OTileOf(<<1, 0>>) = <<0, 0>>
    /\ TileAnchors(<<1, 0>>) = {}
    /\ \A a \in Instances : Images(a) # {} => (a[1] + a[2]) % 4 = 0

\* The extent (max - min + 1) of band member m of the band handed to
\* overlapped_tile, over the statement's domain.
Extent(m) ==
    LET vals == {SchedVal(loc.arg.tree[1].sched, m, pt) : pt \in DomainPoints(loc.arg.domain)}
    IN  MaxOf(vals) - MinOf(vals) + 1

\* C22: overlap pre-check per dimension.  Whenever the tile size of some
\* overlapped dimension (band members 2..multi_dim+2 here) is at least that
\* dimension's extent, overlapped_tile returns the plainly tiled band and
\* inserts no expansion.
PreCheckEveryDimension ==
    (/\ pc = "done" /\ node # NullNode
     /\ \E m \in 2..(loc.multi_dim + 2) : sizes[m] >= Extent(m))
        => /\ ~Overlapped
           /\ node = BandTile(loc.arg, sizes, ctx)

\* C22 (failing case): multi_dim = 1 on a three-dimensional statement whose
\* last dimension has extent 2 and tile size 2, while the first space
\* dimension is wider than its tile; the expansion is built all the same.
PreCheckSkipsSecondDimensionWitness ==
    /\ Overlapped
    /\ loc.multi_dim = 1
    /\ 3 \in ExpansionOf.free
    /\ sizes[3] >= Extent(3)
    /\ sizes[2] < Extent(2)

\* C23: overlapped_tile leaves both isl options as it found them, on the
\* overlap path (where tile_shift_point_loops is 0 during the band-tile call
\* and restored after it), on the fallback path and when it stops early.
OptionsRestored ==
    [][pc = "overlapped_tile" =>
          /\ ctx'.tile_shift_point_loops = ctx.tile_shift_point_loops
          /\ ctx'.tile_scale_tile_loops = ctx.tile_scale_tile_loops]_vars

\* C23 (witness): the overlap path taken with tile_shift_point_loops set; the
\* bands were tiled without shifting and the option is set again on return.
OptionsRestoredWitness ==
    /\ Overlapped
    /\ ctx.tile_shift_point_loops
    /\ node.tree[1].type = "band" /\ node.tree[1].role = "tile"
    /\ ~node.tree[1].shift

\* The points near a in every coordinate, the time coordinate included.
Near(a) ==
    LET ts == (a[1] - 1)..(a[1] + 1)
        is == (a[2] - 1)..(a[2] + 1)
    IN  IF Len(a) = 2 THEN {<<t, i>> : t \in ts, i \in is}
        ELSE {<<t, i, j>> : t \in ts, i \in is, j \in (a[3] - 1)..(a[3] + 1)}

\* C24: only the first multi_dim+1 space dimensions are freed.  An input
\* point and each of its copies agree on the time coordinate and on every
\* space dimension beyond the first multi_dim+1 (coordinates above
\* multi_dim+2 here); with multi_dim = 0 they differ in the first space
\* dimension at most.
OnlySpaceDimsFreed ==
    Overlapped =>
        \A a \in Instances : \A p \in Near(a) :
            Expands(ExpansionOf, a, p) =>
                /\ p[1] = a[1]
                /\ \A d \in 1..Len(a) : d > loc.multi_dim + 2 => p[d] = a[d]
                /\ loc.multi_dim = 0 => \A d \in 1..Len(a) : d # 2 => p[d] = a[d]

\* C24 (witness): multi_dim = 0 on a three-dimensional statement; some point
\* has a copy that differs from it, in the first space dimension only.
OnlySpaceDimsFreedWitness ==
    /\ Overlapped
    /\ loc.multi_dim = 0
    /\ node.domain.nj > 0
    /\ \E a \in Instances : \E p \in Near(a) :
          /\ Expands(ExpansionOf, a, p)
          /\ p[2] # a[2] /\ p[1] = a[1] /\ p[3] = a[3]

\* Whether tree node q of the result is a band of the given role over the
\* given members of the original band.
IsBandOver(q, role, members) ==
    /\ q <= Len(node.tree)
    /\ node.tree[q].type = "band"
    /\ node.tree[q].role = role
    /\ node.tree[q].members = members

\* C25: expansion placement.  On the overlap path the returned node is the
\* tile band.  Without after_mapping the expansion node, with an empty
\* contraction, is the tile band's child and the whole point band is below
\* it; with after_mapping the point band is split after its time member and
\* the expansion node sits between the two parts.
ExpansionPlacement ==
    Overlapped =>
        LET n == Len(loc.arg.tree[1].members)
            all == [m \in 1..n |-> m]
        IN  /\ node.pos = 1
            /\ IsBandOver(1, "tile", all)
            /\ Cardinality(ExpansionNodes) = 1
            /\ ExpansionOf.contraction = {}
            /\ ~loc.after_mapping =>
                  /\ ExpansionNodes = {2}
                  /\ IsBandOver(3, "point", all)
                  /\ node.tree[4] = Leaf
            /\ loc.after_mapping =>
                  /\ IsBandOver(2, "point", <<1>>)
                  /\ ExpansionNodes = {3}
                  /\ IsBandOver(4, "point", SubSeq(all, 2, n))
                  /\ node.tree[5] = Leaf

\* C25 (witness): the after_mapping mode on a three-member band; the lower
\* point band holds the two space members.
ExpansionPlacementWitness ==
    /\ Overlapped
    /\ Len(loc.arg.tree[1].members) = 3
    /\ loc.after_mapping
    /\ IsBandOver(2, "point", <<1>>)
    /\ IsBandOver(4, "point", <<2, 3>>)

(***************************************************************************)
(* Claims on the entry points and the driver.                              *)
(***************************************************************************)
\* C7: malformed input.  A call of split_tile, overlapped_tile or
\* split_tile_read_tile_sizes whose node is null or not a band, or whose
\* scop or sizes is null, returns null without trapping and leaves the isl
\* options (and, for split_tile_read_tile_sizes, the node) as they were.
MalformedInputReturnsNull ==
    [][Malformed =>
          /\ pc' = "done"
          /\ ctx' = ctx
          /\ IF pc = "split_tile_read_tile_sizes"
             THEN sizes' = NullSizes /\ node' = node
             ELSE node' = NullNode]_vars

\* C7 (failing case): overlapped_tile was called with a null scop and
\* returned the tiled band.
NullScopTiledWitness ==
    /\ pc = "done" /\ scop = NullScop /\ node # NullNode
    /\ node.tree[1].type = "band" /\ node.tree[1].role = "tile"

\* C8: local failure.  When get_schedule returns for a non-null scop, the
\* schedule is not null.
ScheduleNeverNull ==
    (pc = "done" /\ scop # NullScop) => node # NullNode

\* C8 (failing case): split_tile returned null for a band with at least two
\* members and get_schedule returned a null schedule.
NullScheduleWitness ==
    /\ pc = "done" /\ scop # NullScop /\ node = NullNode
    /\ scop.options.split_tile
    /\ loc.n_list > 0 /\ loc.phases = NullList

\* The nodes of the returned tree of the given type.
NodesOfType(type) == {q \in 1..Len(node.tree) : node.tree[q].type = type}

\* C26: tile_band returns a node that is not a band, or a band with at most
\* one member, as it is.  On a band with at least two members the result is
\* that of split_tile when the split_tile option is set (whatever the
\* rectangle option), otherwise that of overlapped_tile when the rectangle
\* option is set, otherwise the plainly tiled band with every member of the
\* tile band marked atomic.
TileBandStrategy ==
    pc = "done" =>
        LET n == loc.arg
            sz == ppcg_multi_val_from_int(n, scop.options.tile_size)
        IN  IF ~IsBand(n) \/ BandNMember(n) <= 1
            THEN node = n
            ELSE IF scop.options.split_tile
            THEN /\ \E r \in split_tile(n, scop, sz, ctx) : ~r.trap /\ r.ret = node
                 /\ NodesOfType("expansion") = {}
                 /\ \A q \in NodesOfType("band") : \A m \in DOMAIN node.tree[q].loop_type :
                       node.tree[q].loop_type[m] = "default"
            ELSE IF scop.options.rectangle
            THEN /\ \E r \in overlapped_tile(n, scop, sz, 0, FALSE, ctx) :
                       ~r.trap /\ r.ret = node
                 /\ NodesOfType("sequence") = {}
                 /\ \A q \in NodesOfType("band") : \A m \in DOMAIN node.tree[q].loop_type :
                       node.tree[q].loop_type[m] = "default"
            ELSE /\ NodesOfType("band") = {1, 2}
                 /\ Len(node.tree) = 3
                 /\ node.pos = 1
                 /\ node.tree[1].role = "tile" /\ node.tree[2].role = "point"
                 /\ node.tree[1].sz = sz
                 /\ node.tree[1].members = n.tree[1].members
                 /\ \A m \in DOMAIN node.tree[1].loop_type :
                       node.tree[1].loop_type[m] = "atomic"

\* C26 (witness): both the split_tile and the rectangle option are set on a
\* band with two members and the band comes back split into phases.
TileBandStrategyWitness ==
    /\ pc = "done" /\ node # NullNode
    /\ scop.options.split_tile /\ scop.options.rectangle
    /\ IsBand(loc.arg) /\ BandNMember(loc.arg) >= 2
    /\ NodesOfType("sequence") # {}
    /\ NodesOfType("expansion") = {}

\* The call got past the argument check and a probe helper gave a null
\* point.
ProbeFailed ==
    /\ pc \in {"done", "trap"}
    /\ loc.bound # 0
    /\ \/ loc.source_tile = NullPoint
       \/ loc.source_point = NullPoint
       \/ loc.sink_tile = NullPoint

\* C27: probe failure.  When split_tile_obtain_source_tile,
\* split_tile_obtain_source_point or split_tile_obtain_sink_tile gives a null
\* point, split_tile returns a null node, and neither the factor nor the
\* number of phases nor the phases are computed.
ProbeFailureStops ==
    ProbeFailed =>
        /\ pc = "done"
        /\ node = NullNode
        /\ loc.factor = NoLocals.factor
        /\ loc.n_list = NoLocals.n_list
        /\ loc.phases = NullList

\* C27 (failing case): tile sizes over another space make the band tiling
\* fail, both probes give null, and the division in
\* split_tile_compute_dependence traps.
ProbeNullTrapWitness ==
    /\ ProbeFailed
    /\ pc = "trap"
    /\ Len(sizes) = 1
    /\ loc.source_tile = NullPoint /\ loc.source_point = NullPoint

\* C28: OpenMP annotation.  At any moment of the AST generation, a for node
\* under construction is marked is_openmp exactly when it is parallel and
\* none of the for nodes that enclose it is marked; so at most one node of
\* the nesting path is marked, and it is the outermost parallel one.
OutermostParallelMarked ==
    pc = "ast_build" =>
        /\ \A q \in 1..Len(node) :
              (node[q].info.is_openmp = 1)
                  <=> (node[q].parallel /\ \A r \in 1..(q - 1) : r \notin Marked)
        /\ \A q \in 1..Len(node) : node[q].info.is_openmp \in {0, 1}
        /\ Cardinality(Marked) <= 1
        /\ \A q \in Marked : \A r \in 1..(q - 1) : ~node[r].parallel
        /\ (\E q \in 1..Len(node) : node[q].parallel) => Marked # {}

\* C28 (witness): a loop that is not parallel encloses a parallel loop,
\* which is marked, and this one encloses a parallel loop that is not.
OutermostParallelMarkedWitness ==
    /\ pc = "ast_build"
    /\ Len(node) >= 3
    /\ ~node[1].parallel /\ node[1].info.is_openmp = 0
    /\ node[2].parallel /\ node[2].info.is_openmp = 1
    /\ node[3].parallel /\ node[3].info.is_openmp = 0

\* C29: OpenMP flag tracking.  in_parallel_for is 0 at the start and, after
\* any properly nested sequence of callbacks, 1 exactly while a marked for
\* node is under construction; ast_build_after_for on a marked node sets it
\* to 0 and on an unmarked node leaves it as it is.
FlagTracksMarkedLoop ==
    /\ pc = "ast_build" => loc.build_info.in_parallel_for = 0
    /\ [](pc = "ast_build" =>
             /\ loc.build_info.in_parallel_for \in {0, 1}
             /\ loc.build_info.in_parallel_for = 1 <=> Marked # {})
    /\ [][(pc = "ast_build" /\ Len(node') < Len(node)) =>
             IF node[Len(node)].info.is_openmp = 1
             THEN loc'.build_info.in_parallel_for = 0
             ELSE loc'.build_info.in_parallel_for = loc.build_info.in_parallel_for]_vars

\* C29 (witness): a marked loop was left and a later loop is marked now,
\* inside a loop that is not parallel.
FlagTracksMarkedLoopWitness ==
    /\ pc = "ast_build"
    /\ Len(node) = 2
    /\ loc.returned.info.is_openmp = 1
    /\ node[1].info.is_openmp = 0
    /\ node[2].info.is_openmp = 1
    /\ loc.build_info.in_parallel_for = 1

\* C30: drop_str removes sub completely.  The string drop_str returns holds
\* no occurrence of sub, and the string drop_braces returns holds no "{",
\* no "}" and no blank.
DropStrRemovesAll ==
    pc = "done" =>
        /\ loc.op = "drop_str" => ~Contains(CStr(loc.str), loc.sub)
        /\ loc.op = "drop_braces" =>
              \A ch \in {"{", "}", " "} : ~Contains(CStr(loc.str), <<ch>>)

\* C30 (failing case): drop_braces on "{{a" returns "{a"; after the first
\* removal the scan goes on at index 1 and the brace now at index 0 stays.
BraceAtIndexZeroWitness ==
    /\ pc = "done"
    /\ loc.op = "drop_braces"
    /\ loc.arg = <<"{", "{", "a">>
    /\ CStr(loc.str) = <<"{", "a">>

====
